---- MODULE Spec2Model ----
(***************************************************************************)
(* A model of extension/src/graphql.ts: the GraphQL executor               *)
(* requestGraphQL and the four domain operations search, resolveRev,       *)
(* resolveRepository and queryExtensions.                                  *)
(*                                                                         *)
(* JavaScript values are tagged records (undefined, null, string, object,  *)
(* array).  Strings that the code builds by concatenation or template      *)
(* literals are "texts": sequences of string fragments, so that equality   *)
(* and containment of messages and URLs can be decided.                    *)
(*                                                                         *)
(* Every async function runs to its next await in one step; each           *)
(* resumption after an await is a separate action, so the calls in flight  *)
(* interleave at exactly the suspension points of the code.                *)
(***************************************************************************)
EXTENDS Integers, Sequences, FiniteSets, TLC

VARIABLES pc, call, spans, childSpan, requests, response, jsonCalls,
          inner, fnResult, outcome, settles

vars == <<pc, call, spans, childSpan, requests, response, jsonCalls,
          inner, fnResult, outcome, settles>>

----------------------------------------------------------------------------
(* Bounds of the model *)

\* longest errors list a response carries
MaxErrors == 2

----------------------------------------------------------------------------
(* JavaScript values *)

Undef == [t |-> "undefined"]
Null == [t |-> "null"]
Str(s) == [t |-> "string", s |-> s]
Obj(f) == [t |-> "object", o |-> f]
Arr(a) == [t |-> "array", a |-> a]

EmptyObj == Obj([k \in {} |-> Undef])
Prop(k, v) == Obj([x \in {k} |-> v])

Nullish(v) == v.t \in {"undefined", "null"}

\* ToBoolean: undefined, null and "" are falsy; objects, arrays and other strings truthy
Truthy(v) ==
    CASE v.t = "undefined" -> FALSE
      [] v.t = "null" -> FALSE
      [] v.t = "string" -> v.s # ""
      [] OTHER -> TRUE

\* v.k on a value that is not null or undefined: own property or undefined
Get(v, k) ==
    IF v.t = "object" /\ k \in DOMAIN v.o THEN v.o[k] ELSE Undef

\* v.length > 0
LengthPositive(v) ==
    CASE v.t = "array" -> Len(v.a) > 0
      [] v.t = "string" -> v.s # ""
      [] OTHER -> FALSE

----------------------------------------------------------------------------
(* Texts and errors *)

DigitChar == <<"0", "1", "2", "3", "4", "5", "6", "7", "8", "9">>

\* String(n) for a non-negative integer
RECURSIVE NumberToText(_)
NumberToText(n) ==
    IF n < 10 THEN <<DigitChar[n + 1]>>
    ELSE NumberToText(n \div 10) \o <<DigitChar[(n % 10) + 1]>>

\* Array.prototype.join: null and undefined elements give the empty string
ElementText(v) == IF v.t = "string" THEN <<v.s>> ELSE <<>>

RECURSIVE Join(_, _)
Join(a, sep) ==
    IF a = <<>> THEN <<>>
    ELSE IF Len(a) = 1 THEN ElementText(a[1])
    ELSE ElementText(a[1]) \o <<sep>> \o Join(Tail(a), sep)

Resolved(v) == [kind |-> "resolved", value |-> v]
Rejected(name, message) == [kind |-> "rejected", name |-> name, message |-> message]
Pending == [kind |-> "pending"]

\* reading property k of null or undefined
NullAccess(v, k) ==
    Rejected("TypeError", <<"Cannot read property '", k, "' of ", v.t>>)

----------------------------------------------------------------------------
(* URLs *)

\* a URL object: origin and path segments; the root path "/" is <<>>
PathText(segs) ==
    IF segs = <<>> THEN <<"/">>
    ELSE [i \in 1..(2 * Len(segs)) |-> IF i % 2 = 1 THEN "/" ELSE segs[i \div 2]]

\* URL.prototype.toString(): the href
Href(u) == <<u.origin>> \o PathText(u.path)

\* the relative reference '/.api/graphql'
ApiReference == [absolute |-> TRUE, path |-> <<".api", "graphql">>]

\* new URL(ref, base): a reference starting with "/" replaces the base's whole
\* path; any other reference replaces the last segment of the base's path
NewURL(ref, base) ==
    IF ref.absolute
    THEN [origin |-> base.origin, path |-> ref.path]
    ELSE [origin |-> base.origin,
          path |-> (IF base.path = <<>> THEN <<>>
                    ELSE SubSeq(base.path, 1, Len(base.path) - 1)) \o ref.path]

----------------------------------------------------------------------------
(* requestGraphQL *)

\* a faulty variant of Headers: the test is accessToken !== undefined, so an
\* empty token is sent too
HeadersForAnyToken(accessToken) ==
    IF accessToken.t # "undefined"
    THEN [h \in {"Accept", "Content-Type", "Authorization"} |->
            IF h = "Authorization"
            THEN <<"token ", accessToken.s>>
            ELSE <<"application/json">>]
    ELSE [h \in {"Accept", "Content-Type"} |-> <<"application/json">>]

Headers(accessToken) ==
    IF Truthy(accessToken)
    THEN [h \in {"Accept", "Content-Type", "Authorization"} |->
            IF h = "Authorization"
            THEN <<"token ", accessToken.s>>
            ELSE <<"application/json">>]
    ELSE [h \in {"Accept", "Content-Type"} |-> <<"application/json">>]

\* what JSON.stringify keeps of a value: properties holding undefined are
\* dropped, array elements holding undefined become null
RECURSIVE Serializable(_)
Serializable(v) ==
    CASE v.t = "object" ->
            Obj([k \in {x \in DOMAIN v.o : v.o[x].t # "undefined"} |->
                    Serializable(v.o[k])])
      [] v.t = "array" ->
            Arr([i \in 1..Len(v.a) |->
                    IF v.a[i].t = "undefined" THEN Null ELSE Serializable(v.a[i])])
      [] OTHER -> v

\* the text JSON.stringify produces, named by the document it encodes
JSONStringify(v) == [json |-> Serializable(v)]

\* variables: any = {}
DefaultVariables(variables) ==
    IF variables.t = "undefined" THEN EmptyObj ELSE variables

\* the URL the request is sent to
GraphQLUrl(instanceUrl) == NewURL(ApiReference, instanceUrl)

\* the request requestGraphQL hands to tracedFetch
FetchRequest(query, variables, sgInstance, span) ==
    [url |-> GraphQLUrl(sgInstance.instanceUrl),
     method |-> "POST",
     headers |-> Headers(sgInstance.accessToken),
     body |-> JSONStringify(Obj([k \in {"query", "variables"} |->
                 IF k = "query" THEN Str(query) ELSE DefaultVariables(variables)])),
     span |-> span]

\* a faulty variant of Ok: only server errors count as failures
OkBelow500(resp) == resp.status < 500

\* response.ok
Ok(resp) == resp.status >= 200 /\ resp.status <= 299

\* new Error(`${response.status} ${response.statusText}`)
StatusError(resp) ==
    Rejected("Error", NumberToText(resp.status) \o <<" ", resp.statusText>>)

\* response.json(): the decoded document, or a SyntaxError on a body that is not JSON
ResponseJson(resp) ==
    IF resp.body.valid THEN Resolved(resp.body.value)
    ELSE Rejected("SyntaxError", <<"Unexpected token in JSON">>)

----------------------------------------------------------------------------
(* The callbacks of the domain operations, from the envelope on *)

NoThrow == [kind |-> "none"]

\* errors.map(e => e.message)
RECURSIVE MapMessage(_)
MapMessage(a) ==
    IF a = <<>> THEN Resolved(<<>>)
    ELSE IF Nullish(a[1]) THEN NullAccess(a[1], "message")
    ELSE LET rest == MapMessage(Tail(a))
         IN IF rest.kind = "rejected" THEN rest
            ELSE Resolved(<<Get(a[1], "message")>> \o rest.value)

\* if (errors && errors.length > 0) throw new Error('GraphQL Error:' + ...)
ThrowIfErrors(errors) ==
    IF Truthy(errors) /\ LengthPositive(errors)
    THEN IF errors.t # "array"
         THEN Rejected("TypeError", <<"errors.map is not a function">>)
         ELSE LET messages == MapMessage(errors.a)
              IN IF messages.kind = "rejected" THEN messages
                 ELSE Rejected("Error", <<"GraphQL Error:">> \o Join(messages.value, "\n"))
    ELSE NoThrow

\* a faulty variant of GetPath: optional chaining, v?.k1?.k2...
RECURSIVE GetPathOptional(_, _)
GetPathOptional(v, path) ==
    IF path = <<>> THEN Resolved(v)
    ELSE IF Nullish(v) THEN Resolved(Undef)
    ELSE GetPathOptional(Get(v, Head(path)), Tail(path))

\* v.k1.k2...: each access throws on null or undefined
RECURSIVE GetPath(_, _)
GetPath(v, path) ==
    IF path = <<>> THEN Resolved(v)
    ELSE IF Nullish(v) THEN NullAccess(v, Head(path))
    ELSE GetPath(Get(v, Head(path)), Tail(path))

\* a faulty variant of ErrorsThenExtract: the field is read before errors is looked at
ExtractThenErrors(env, path) ==
    IF Nullish(env)
    THEN Rejected("TypeError", <<"Cannot destructure property 'data' of ", env.t>>)
    ELSE LET thrown == ThrowIfErrors(Get(env, "errors"))
             got == GetPath(Get(env, "data"), path)
         IN IF got.kind = "rejected" THEN got
            ELSE IF thrown.kind # "none" THEN thrown
            ELSE got

\* const { data, errors } = <envelope>; the errors check; return data.<path>
ErrorsThenExtract(env, path) ==
    IF Nullish(env)
    THEN Rejected("TypeError", <<"Cannot destructure property 'data' of ", env.t>>)
    ELSE LET thrown == ThrowIfErrors(Get(env, "errors"))
         IN IF thrown.kind # "none" THEN thrown
            ELSE GetPath(Get(env, "data"), path)

\* a faulty variant of searchResult: one level short, data.search.results
searchResultsOuter(env) == ErrorsThenExtract(env, <<"search", "results">>)

searchResult(env) == ErrorsThenExtract(env, <<"search", "results", "results">>)

resolveRevResult(env) == ErrorsThenExtract(env, <<"repository", "commit", "oid">>)

queryExtensionsResult(env) ==
    ErrorsThenExtract(env, <<"extensionRegistry", "extensions", "nodes">>)

\* new Error(`No repository found for clone URL ${cloneUrl} on instance ${sgInstance.instanceUrl}`)
NotFoundError(cloneUrl, sgInstance) ==
    Rejected("Error", <<"No repository found for clone URL ", cloneUrl, " on instance ">>
                        \o Href(sgInstance.instanceUrl))

\* a faulty variant of resolveRepositoryResult: no check of data.repository
resolveRepositoryUnguarded(env, cloneUrl, sgInstance) ==
    ErrorsThenExtract(env, <<"repository", "name">>)

resolveRepositoryResult(env, cloneUrl, sgInstance) ==
    IF Nullish(env)
    THEN Rejected("TypeError", <<"Cannot destructure property 'data' of ", env.t>>)
    ELSE LET thrown == ThrowIfErrors(Get(env, "errors"))
             data == Get(env, "data")
         IN IF thrown.kind # "none" THEN thrown
            ELSE IF Nullish(data) THEN NullAccess(data, "repository")
            ELSE IF ~Truthy(Get(data, "repository")) THEN NotFoundError(cloneUrl, sgInstance)
            ELSE GetPath(Get(data, "repository"), <<"name">>)

----------------------------------------------------------------------------
(* The calls the model makes and the responses the server gives *)

CallIds == {1, 2}

\* the span the caller passes in
CallerSpan == 1

SearchQuery == "query Search($query: String!) { search(query: $query) { results { results { ... on FileMatch { repository { name } } } } } }"
ResolveRevQuery == "query ResolveRev($repoName: String!, $rev: String!) { repository(name: $repoName) { commit(rev: $rev) { oid } } }"
ResolveRepositoryQuery == "query($cloneUrl: String!) { repository(cloneURL: $cloneUrl) { name } }"
ExtensionsQuery == "query ExtensionManifests { extensionRegistry { extensions { nodes { extensionID manifest { raw } } } } }"

DomainOps == {"search", "resolveRev", "resolveRepository", "queryExtensions"}

InstanceUrls ==
    {[origin |-> "https://sourcegraph.example.com", path |-> <<>>],
     [origin |-> "https://example.com", path |-> <<"sourcegraph">>]}

AccessTokens == {Undef, Str(""), Str("secret")}

Instances ==
    {[instanceUrl |-> u, accessToken |-> a] : u \in InstanceUrls, a \in AccessTokens}

ArgumentLists ==
    {[op |-> "search", query |-> "foo"],
     [op |-> "resolveRev", repoName |-> "github.com/a/b", rev |-> "HEAD"],
     [op |-> "resolveRepository", cloneUrl |-> "https://x/y.git"],
     [op |-> "queryExtensions"],
     [op |-> "requestGraphQL", query |-> "query { currentUser { username } }",
      variables |-> Undef],
     [op |-> "requestGraphQL", query |-> "query($id: ID!) { node(id: $id) { id } }",
      variables |-> Prop("id", Str("7"))]}

Inputs ==
    {[args |-> a, sgInstance |-> i, span |-> CallerSpan] :
        a \in ArgumentLists, i \in Instances}

NoCall == [args |-> [op |-> "none"]]

SearchPath == <<"search", "results", "results">>
ResolveRevPath == <<"repository", "commit", "oid">>
ResolveRepositoryPath == <<"repository", "name">>
ExtensionsPath == <<"extensionRegistry", "extensions", "nodes">>
Paths == {SearchPath, ResolveRevPath, ResolveRepositoryPath, ExtensionsPath}

\* the object holding leaf under the keys of path
RECURSIVE Chain(_, _)
Chain(path, leaf) ==
    IF path = <<>> THEN leaf ELSE Prop(Head(path), Chain(Tail(path), leaf))

Leaf(path) ==
    CASE path = SearchPath ->
            Arr(<<Prop("repository", Prop("name", Str("github.com/a/b")))>>)
      [] path = ResolveRevPath -> Str("abc123")
      [] path = ResolveRepositoryPath -> Str("github.com/a/b")
      [] path = ExtensionsPath ->
            Arr(<<Obj([k \in {"extensionID", "manifest"} |->
                       IF k = "extensionID" THEN Str("sourcegraph/typescript")
                       ELSE Prop("raw", Str("{}"))])>>)

\* data cut short along a path: by null, by a string, or by a missing key
DataCut ==
    UNION {{Chain(SubSeq(p, 1, i), t) : i \in 0..(Len(p) - 1), t \in {Null, Str("x"), EmptyObj}} :
              p \in Paths}

DataValues ==
    DataCut \cup {Chain(p, Leaf(p)) : p \in Paths} \cup {Chain(p, Null) : p \in Paths}
            \cup {Prop("repository", Str(""))}

ErrorEntries ==
    {Obj([k \in {"message", "path"} |-> IF k = "message" THEN Str(m) ELSE Str("search")]) :
        m \in {"not found", "timeout"}}

ErrorLists == UNION {[1..n -> ErrorEntries] : n \in 0..MaxErrors}

ErrorsValues == {Arr(l) : l \in ErrorLists} \cup {Null, Str("boom")}

Absent == [t |-> "absent"]

\* the envelope { data, errors }, either key possibly missing
Envelope(data, errors) ==
    Obj([k \in ({"data" : x \in {data} \ {Absent}} \cup {"errors" : x \in {errors} \ {Absent}})
            |-> IF k = "data" THEN data ELSE errors])

Envelopes ==
    {Envelope(d, e) : d \in DataValues, e \in ErrorsValues}
        \cup {Envelope(Absent, e) : e \in ErrorsValues}
        \cup {Envelope(d, Absent) : d \in DataValues}
        \cup {Envelope(Absent, Absent)}

Bodies ==
    {[valid |-> FALSE]} \cup {[valid |-> TRUE, value |-> v] : v \in Envelopes \cup {Null}}

StatusLines ==
    {[status |-> 200, statusText |-> "OK"],
     [status |-> 201, statusText |-> "Created"],
     [status |-> 404, statusText |-> "Not Found"]}

Responses ==
    {[status |-> l.status, statusText |-> l.statusText, body |-> b] :
        l \in StatusLines, b \in Bodies}

NoResponse == [status |-> 0]

----------------------------------------------------------------------------
(* The tracing collaborators *)

\* tracer.startSpan(operationName, { childOf: span })
StartSpan(operationName, span) ==
    Append(spans, [name |-> operationName, childOf |-> span, finished |-> 0])

\* span.finish()
FinishSpan(id) == [spans EXCEPT ![id].finished = @ + 1]

OperationName(op) ==
    CASE op = "search" -> "Sourcegraph search"
      [] op = "resolveRev" -> "Resolve rev"
      [] op = "resolveRepository" -> "Resolve clone URL"
      [] op = "queryExtensions" -> "Query extensions"

----------------------------------------------------------------------------
(* The operations *)

\* the query and variables each operation passes to requestGraphQL
QueryOf(args) ==
    CASE args.op = "search" -> SearchQuery
      [] args.op = "resolveRev" -> ResolveRevQuery
      [] args.op = "resolveRepository" -> ResolveRepositoryQuery
      [] args.op = "queryExtensions" -> ExtensionsQuery
      [] args.op = "requestGraphQL" -> args.query

VariablesOf(args) ==
    CASE args.op = "search" -> Prop("query", Str(args.query))
      [] args.op = "resolveRev" ->
            Obj([k \in {"repoName", "rev"} |->
                    IF k = "repoName" THEN Str(args.repoName) ELSE Str(args.rev)])
      [] args.op = "resolveRepository" -> Prop("cloneUrl", Str(args.cloneUrl))
      [] args.op = "queryExtensions" -> EmptyObj
      [] args.op = "requestGraphQL" -> args.variables

\* a faulty variant of RequestSpan: the callback ignores its parameter and
\* hands on the caller's span
RequestSpanOfCaller(callerSpan, child) == callerSpan

\* the span handed on to requestGraphQL: the callback's parameter span, which
\* shadows the caller's span, is the child span tracePromise started
RequestSpan(callerSpan, child) == child

\* the callback of each domain operation, resumed with the envelope
CallbackResult(in, env) ==
    CASE in.args.op = "search" -> searchResult(env)
      [] in.args.op = "resolveRev" -> resolveRevResult(env)
      [] in.args.op = "resolveRepository" ->
            resolveRepositoryResult(env, in.args.cloneUrl, in.sgInstance)
      [] in.args.op = "queryExtensions" -> queryExtensionsResult(env)

\* a faulty variant of ResponseOf: the response is kept in a variable of the
\* module, which the latest call to get one overwrites
ResponseOfShared(c) ==
    IF \E d \in CallIds \ {c} : response[d].status # 0
    THEN response[CHOOSE d \in CallIds \ {c} : response[d].status # 0]
    ELSE response[c]

\* the response the continuation of call c reads: its own local variable
ResponseOf(c) == response[c]

\* the promise of requestGraphQL settles with r: a direct call settles for its
\* caller, a domain operation's callback will resume
RequestSettles(c, r) ==
    /\ inner' = [inner EXCEPT ![c] = r]
    /\ IF call[c].args.op = "requestGraphQL"
       THEN /\ outcome' = [outcome EXCEPT ![c] = r]
            /\ settles' = [settles EXCEPT ![c] = @ + 1]
            /\ pc' = [pc EXCEPT ![c] = "settled"]
       ELSE /\ pc' = [pc EXCEPT ![c] = "resume"]
            /\ UNCHANGED <<outcome, settles>>

\* The caller invokes an operation.  A domain operation starts its child span
\* and runs its callback up to the await of requestGraphQL, which runs up to
\* the await of tracedFetch: the request is on its way.
Invoke(c, inputs) ==
    /\ pc[c] = "idle"
    /\ \E in \in inputs :
          LET child == Len(spans) + 1
              traced == in.args.op \in DomainOps
              span == IF traced THEN RequestSpan(in.span, child) ELSE in.span
          IN /\ call' = [call EXCEPT ![c] = in]
             /\ spans' = IF traced THEN StartSpan(OperationName(in.args.op), in.span)
                         ELSE spans
             /\ childSpan' = [childSpan EXCEPT ![c] = IF traced THEN child ELSE 0]
             /\ requests' = [requests EXCEPT ![c] =
                               Append(@, FetchRequest(QueryOf(in.args), VariablesOf(in.args),
                                                      in.sgInstance, span))]
    /\ pc' = [pc EXCEPT ![c] = "fetch"]
    /\ UNCHANGED <<response, jsonCalls, inner, fnResult, outcome, settles>>

\* a faulty variant of FetchResponds: a failed status is answered by sending
\* the request once more
FetchRespondsRetrying(c, responses) ==
    /\ pc[c] = "fetch"
    /\ \E r \in responses :
          /\ response' = [response EXCEPT ![c] = r]
          /\ IF ~Ok(r) /\ Len(requests[c]) < 2
             THEN /\ requests' = [requests EXCEPT ![c] = Append(@, @[1])]
                  /\ UNCHANGED <<pc, jsonCalls, inner, outcome, settles>>
             ELSE IF ~Ok(r)
             THEN /\ RequestSettles(c, StatusError(r))
                  /\ UNCHANGED <<jsonCalls, requests>>
             ELSE /\ jsonCalls' = [jsonCalls EXCEPT ![c] = @ + 1]
                  /\ pc' = [pc EXCEPT ![c] = "json"]
                  /\ UNCHANGED <<inner, outcome, settles, requests>>
    /\ UNCHANGED <<call, spans, childSpan, fnResult>>

\* tracedFetch resolves with a response: the status check, then response.json()
FetchResponds(c, responses) ==
    /\ pc[c] = "fetch"
    /\ \E r \in responses :
          /\ response' = [response EXCEPT ![c] = r]
          /\ IF ~Ok(r)
             THEN /\ RequestSettles(c, StatusError(r))
                  /\ UNCHANGED jsonCalls
             ELSE /\ jsonCalls' = [jsonCalls EXCEPT ![c] = @ + 1]
                  /\ pc' = [pc EXCEPT ![c] = "json"]
                  /\ UNCHANGED <<inner, outcome, settles>>
    /\ UNCHANGED <<call, spans, childSpan, requests, fnResult>>

\* tracedFetch rejects: no response arrived
FetchFails(c) ==
    /\ pc[c] = "fetch"
    /\ RequestSettles(c, Rejected("FetchError", <<"request failed">>))
    /\ UNCHANGED <<call, spans, childSpan, requests, response, jsonCalls, fnResult>>

\* response.json() settles and requestGraphQL returns or rethrows what it gave
JsonSettles(c) ==
    /\ pc[c] = "json"
    /\ RequestSettles(c, ResponseJson(ResponseOf(c)))
    /\ UNCHANGED <<call, spans, childSpan, requests, response, jsonCalls, fnResult>>

\* the callback of a domain operation resumes after await requestGraphQL(...)
CallbackResumes(c) ==
    /\ pc[c] = "resume"
    /\ fnResult' = [fnResult EXCEPT ![c] =
                      IF inner[c].kind = "rejected" THEN inner[c]
                      ELSE CallbackResult(call[c], inner[c].value)]
    /\ pc' = [pc EXCEPT ![c] = "finish"]
    /\ UNCHANGED <<call, spans, childSpan, requests, response, jsonCalls, inner,
                   outcome, settles>>

\* tracePromise: the callback's promise has settled; the span is finished and
\* the operation's promise settles the same way
TracePromiseSettles(c) ==
    /\ pc[c] = "finish"
    /\ spans' = FinishSpan(childSpan[c])
    /\ outcome' = [outcome EXCEPT ![c] = fnResult[c]]
    /\ settles' = [settles EXCEPT ![c] = @ + 1]
    /\ pc' = [pc EXCEPT ![c] = "settled"]
    /\ UNCHANGED <<call, childSpan, requests, response, jsonCalls, inner, fnResult>>

Init ==
    /\ pc = [c \in CallIds |-> "idle"]
    /\ call = [c \in CallIds |-> NoCall]
    /\ spans = <<[name |-> "caller", childOf |-> 0, finished |-> 0]>>
    /\ childSpan = [c \in CallIds |-> 0]
    /\ requests = [c \in CallIds |-> <<>>]
    /\ response = [c \in CallIds |-> NoResponse]
    /\ jsonCalls = [c \in CallIds |-> 0]
    /\ inner = [c \in CallIds |-> Pending]
    /\ fnResult = [c \in CallIds |-> Pending]
    /\ outcome = [c \in CallIds |-> Pending]
    /\ settles = [c \in CallIds |-> 0]

\* one call, every input and every response
Next ==
    \/ Invoke(1, Inputs)
    \/ FetchResponds(1, Responses)
    \/ FetchFails(1)
    \/ JsonSettles(1)
    \/ CallbackResumes(1)
    \/ TracePromiseSettles(1)

Spec == Init /\ [][Next]_vars

\* two calls in flight at once, over fewer inputs and responses
ConcurrentInputs ==
    {[args |-> [op |-> "search", query |-> "foo"],
      sgInstance |-> [instanceUrl |-> [origin |-> "https://sourcegraph.example.com",
                                       path |-> <<>>],
                      accessToken |-> Undef],
      span |-> CallerSpan],
     [args |-> [op |-> "resolveRev", repoName |-> "github.com/a/b", rev |-> "HEAD"],
      sgInstance |-> [instanceUrl |-> [origin |-> "https://example.com",
                                       path |-> <<"sourcegraph">>],
                      accessToken |-> Str("secret")],
      span |-> CallerSpan],
     [args |-> [op |-> "resolveRepository", cloneUrl |-> "https://x/y.git"],
      sgInstance |-> [instanceUrl |-> [origin |-> "https://example.com",
                                       path |-> <<"sourcegraph">>],
                      accessToken |-> Str("secret")],
      span |-> CallerSpan],
     [args |-> [op |-> "queryExtensions"],
      sgInstance |-> [instanceUrl |-> [origin |-> "https://sourcegraph.example.com",
                                       path |-> <<>>],
                      accessToken |-> Str("")],
      span |-> CallerSpan],
     [args |-> [op |-> "requestGraphQL", query |-> "query { currentUser { username } }",
                variables |-> Undef],
      sgInstance |-> [instanceUrl |-> [origin |-> "https://sourcegraph.example.com",
                                       path |-> <<>>],
                      accessToken |-> Str("secret")],
      span |-> CallerSpan]}

ConcurrentBodies ==
    {[valid |-> FALSE]}
        \cup {[valid |-> TRUE, value |-> Envelope(Chain(p, Leaf(p)), Absent)] :
                p \in {SearchPath, ResolveRevPath, ResolveRepositoryPath}}
        \cup {[valid |-> TRUE, value |-> Envelope(Prop("repository", Null), Arr(<<>>))],
              [valid |-> TRUE,
               value |-> Envelope(Null, Arr([i \in 1..1 |->
                                    CHOOSE e \in ErrorEntries : e.o["message"].s = "timeout"]))]}

ConcurrentResponses ==
    {[status |-> 200, statusText |-> "OK", body |-> b] : b \in ConcurrentBodies}
        \cup {[status |-> 404, statusText |-> "Not Found",
               body |-> [valid |-> TRUE, value |-> Envelope(Chain(SearchPath, Leaf(SearchPath)), Absent)]]}

ConcurrentNext ==
    \E c \in CallIds :
        \/ Invoke(c, ConcurrentInputs)
        \/ FetchResponds(c, ConcurrentResponses)
        \/ FetchFails(c)
        \/ JsonSettles(c)
        \/ CallbackResumes(c)
        \/ TracePromiseSettles(c)

\* the event loop runs every continuation that is ready; nothing obliges the
\* transport to answer
ConcurrentSpec ==
    /\ Init
    /\ [][ConcurrentNext]_vars
    /\ \A c \in CallIds :
          /\ WF_vars(JsonSettles(c))
          /\ WF_vars(CallbackResumes(c))
          /\ WF_vars(TracePromiseSettles(c))

----------------------------------------------------------------------------
(* Vocabulary of the properties *)

Op(c) == call[c].args.op
Invoked(c) == pc[c] # "idle"
Settled(c) == pc[c] = "settled"
Responded(c) == response[c].status # 0
Status2xx(c) == response[c].status \in 200..299

\* the body of c's response is a JSON object
HasEnvelope(c) ==
    /\ Responded(c)
    /\ response[c].body.valid
    /\ response[c].body.value.t = "object"

Field(c, k) ==
    IF k \in DOMAIN response[c].body.value.o THEN response[c].body.value.o[k] ELSE Absent

\* the body carries a non-empty errors array
HasErrors(c) ==
    /\ HasEnvelope(c)
    /\ Field(c, "errors").t = "array"
    /\ Len(Field(c, "errors").a) > 0

\* the body carries no errors key, or an empty errors array
NoErrors(c) ==
    /\ HasEnvelope(c)
    /\ \/ Field(c, "errors") = Absent
       \/ Field(c, "errors") = Arr(<<>>)

DigitValue(ch) == CHOOSE d \in 0..9 : DigitChar[d + 1] = ch

\* the number a text of decimal digits denotes
RECURSIVE DecimalValue(_)
DecimalValue(text) ==
    IF text = <<>> THEN 0
    ELSE 10 * DecimalValue(SubSeq(text, 1, Len(text) - 1)) + DigitValue(text[Len(text)])

IsInfix(part, text) ==
    \E i \in 0..(Len(text) - Len(part)) : SubSeq(text, i + 1, i + Len(part)) = part

\* message is "<status> <statusText>"
IsStatusMessage(message, resp) ==
    LET n == Len(message)
    IN /\ n >= 3
       /\ message[n] = resp.statusText
       /\ message[n - 1] = " "
       /\ \A i \in 1..(n - 2) : message[i] \in {DigitChar[d] : d \in 1..10}
       /\ DecimalValue(SubSeq(message, 1, n - 2)) = resp.status

\* message is "GraphQL Error:" and then the messages of errors, in their order,
\* with a newline between two of them
IsGraphQLMessage(message, errors) ==
    /\ Len(message) = 2 * Len(errors)
    /\ message[1] = "GraphQL Error:"
    /\ \A i \in 1..Len(errors) : message[2 * i] = errors[i].o["message"].s
    /\ \A i \in 1..(Len(errors) - 1) : message[2 * i + 1] = "\n"

ExtractionPath(op) ==
    CASE op = "search" -> SearchPath
      [] op = "resolveRev" -> ResolveRevPath
      [] op = "resolveRepository" -> ResolveRepositoryPath
      [] op = "queryExtensions" -> ExtensionsPath

\* the value found in v under the first n keys of path, Absent where a key is
\* missing or the value above it is no object
RECURSIVE Under(_, _, _)
Under(v, path, n) ==
    IF n = 0 THEN v
    ELSE LET above == Under(v, path, n - 1)
         IN IF above.t = "object" /\ path[n] \in DOMAIN above.o THEN above.o[path[n]]
            ELSE Absent

NullOrAbsent(v) == v = Null \/ v = Absent

----------------------------------------------------------------------------
(* C1: whatever the body holds, a response whose status is not 2xx makes      *)
(* every operation reject with an Error whose message is "<status>            *)
(* <statusText>", and the body of such a response is never JSON-decoded.      *)
C1_TransportError ==
    \A c \in CallIds :
        (Responded(c) /\ ~Status2xx(c)) =>
            /\ jsonCalls[c] = 0
            /\ pc[c] \notin {"fetch", "json"}
            /\ Settled(c) =>
                  /\ outcome[c].kind = "rejected"
                  /\ outcome[c].name = "Error"
                  /\ IsStatusMessage(outcome[c].message, response[c])

\* resolveRepository has rejected with "404 Not Found" although the body held
\* an errors list and a null data.repository
C1_Witness ==
    \E c \in CallIds :
        /\ Settled(c)
        /\ Op(c) = "resolveRepository"
        /\ response[c].status = 404
        /\ HasErrors(c)
        /\ Field(c, "data") = Prop("repository", Null)
        /\ outcome[c].kind = "rejected"
        /\ outcome[c].message = <<"4", "0", "4", " ", "Not Found">>

(* C2 as stated: every response that carries a non-empty errors array makes   *)
(* each domain operation reject with the GraphQL Error listing the messages   *)
(* in order, whether or not data is present.                                  *)
C2_AnyStatus ==
    \A c \in CallIds :
        (Settled(c) /\ Op(c) \in DomainOps /\ HasErrors(c)) =>
            /\ outcome[c].kind = "rejected"
            /\ outcome[c].name = "Error"
            /\ IsGraphQLMessage(outcome[c].message, Field(c, "errors").a)

(* C2 amended: every 2xx response that carries a non-empty errors array makes *)
(* each domain operation reject with the GraphQL Error listing the messages   *)
(* in order, whether or not data is present or null; the check comes before   *)
(* any extraction and before the not-found check of resolveRepository.        *)
C2_GraphQLError ==
    \A c \in CallIds :
        (Settled(c) /\ Op(c) \in DomainOps /\ Status2xx(c) /\ HasErrors(c)) =>
            /\ outcome[c].kind = "rejected"
            /\ outcome[c].name = "Error"
            /\ IsGraphQLMessage(outcome[c].message, Field(c, "errors").a)

\* resolveRepository got 200, two errors and no data, and rejected with the two
\* messages in the order of the response
C2_Witness ==
    \E c \in CallIds :
        /\ Settled(c)
        /\ Op(c) = "resolveRepository"
        /\ response[c].status = 200
        /\ HasErrors(c)
        /\ Field(c, "data") = Absent
        /\ outcome[c].kind = "rejected"
        /\ outcome[c].message = <<"GraphQL Error:", "timeout", "\n", "not found">>

(* C3: resolveRepository rejects with an Error whose message holds the clone  *)
(* URL and the instance URL whenever the status is 200, errors is empty or    *)
(* missing and data.repository is missing or null; it does not resolve then.  *)
C3_NotFound ==
    \A c \in CallIds :
        (/\ Settled(c)
         /\ Op(c) = "resolveRepository"
         /\ response[c].status = 200
         /\ NoErrors(c)
         /\ Field(c, "data").t = "object"
         /\ NullOrAbsent(Under(Field(c, "data"), ResolveRepositoryPath, 1))) =>
            /\ outcome[c].kind = "rejected"
            /\ outcome[c].name = "Error"
            /\ outcome[c].message[1] = "No repository found for clone URL "
            /\ IsInfix(<<call[c].args.cloneUrl>>, outcome[c].message)
            /\ IsInfix(<<call[c].sgInstance.instanceUrl.origin>>
                          \o PathText(call[c].sgInstance.instanceUrl.path),
                       outcome[c].message)

\* the example of the specification: {"data":{"repository":null}} for the clone
\* URL https://x/y.git
C3_Witness ==
    \E c \in CallIds :
        /\ Settled(c)
        /\ Op(c) = "resolveRepository"
        /\ response[c].status = 200
        /\ response[c].body = [valid |-> TRUE, value |-> Prop("data", Prop("repository", Null))]
        /\ call[c].sgInstance.instanceUrl.path = <<"sourcegraph">>
        /\ outcome[c].kind = "rejected"
        /\ outcome[c].message =
              <<"No repository found for clone URL ", "https://x/y.git", " on instance ",
                "https://example.com", "/", "sourcegraph">>

(* C4: on status 200 with errors empty or missing and a data object that      *)
(* holds the operation's extraction path, each domain operation resolves with *)
(* the value at the end of its path, unchanged; requestGraphQL resolves with   *)
(* the decoded body, unchanged.                                                *)
C4_ExtractedField ==
    \A c \in CallIds :
        /\ (/\ Settled(c)
            /\ Op(c) \in DomainOps
            /\ response[c].status = 200
            /\ NoErrors(c)
            /\ Field(c, "data").t = "object"
            /\ Under(Field(c, "data"), ExtractionPath(Op(c)), Len(ExtractionPath(Op(c)))) # Absent
            /\ \A n \in 1..(Len(ExtractionPath(Op(c))) - 1) :
                  Under(Field(c, "data"), ExtractionPath(Op(c)), n).t = "object") =>
                outcome[c] =
                    [kind |-> "resolved",
                     value |-> Under(Field(c, "data"), ExtractionPath(Op(c)),
                                     Len(ExtractionPath(Op(c))))]
        /\ (/\ Settled(c)
            /\ Op(c) = "requestGraphQL"
            /\ response[c].status = 200
            /\ response[c].body.valid) =>
                outcome[c] = [kind |-> "resolved", value |-> response[c].body.value]

\* the example of the specification: resolveRev("github.com/a/b", "HEAD") yields "abc123"
C4_Witness ==
    \E c \in CallIds :
        /\ Settled(c)
        /\ call[c].args = [op |-> "resolveRev", repoName |-> "github.com/a/b", rev |-> "HEAD"]
        /\ response[c].status = 200
        /\ response[c].body =
              [valid |-> TRUE,
               value |-> Prop("data", Prop("repository", Prop("commit", Prop("oid", Str("abc123")))))]
        /\ outcome[c] = [kind |-> "resolved", value |-> Str("abc123")]

(* C5 as stated: the request carries Authorization: token <credential> exactly *)
(* when the instance descriptor holds a credential, and Accept and             *)
(* Content-Type: application/json always.                                      *)
C5_WhenSupplied ==
    \A c \in CallIds :
        Invoked(c) =>
            LET headers == requests[c][1].headers
                accessToken == call[c].sgInstance.accessToken
            IN /\ headers["Accept"] = <<"application/json">>
               /\ headers["Content-Type"] = <<"application/json">>
               /\ ("Authorization" \in DOMAIN headers) <=> (accessToken # Undef)
               /\ ("Authorization" \in DOMAIN headers) =>
                      headers["Authorization"] = <<"token ", accessToken.s>>

(* C5 amended: the request carries Authorization: token <credential> exactly   *)
(* when the credential is a non-empty string, no Authorization header when it  *)
(* is missing or empty, and Accept and Content-Type: application/json always.  *)
C5_Authorization ==
    \A c \in CallIds :
        Invoked(c) =>
            LET headers == requests[c][1].headers
                accessToken == call[c].sgInstance.accessToken
            IN /\ headers["Accept"] = <<"application/json">>
               /\ headers["Content-Type"] = <<"application/json">>
               /\ ("Authorization" \in DOMAIN headers) <=>
                      (accessToken.t = "string" /\ accessToken.s # "")
               /\ ("Authorization" \in DOMAIN headers) =>
                      headers["Authorization"] = <<"token ", accessToken.s>>
               /\ DOMAIN headers \subseteq {"Accept", "Content-Type", "Authorization"}

\* a request with the credential "secret" is on its way
C5_Witness ==
    \E c \in CallIds :
        /\ Invoked(c)
        /\ call[c].sgInstance.accessToken = Str("secret")
        /\ requests[c][1].headers["Authorization"] = <<"token ", "secret">>

(* C6: the request is a POST to the instance URL followed by         *)
(* /.api/graphql, also when the instance URL has a path, and its body is the   *)
(* JSON of {query, variables} with the caller's query and variables.           *)
C6_InstanceUrlPrefix ==
    \A c \in CallIds :
        Invoked(c) =>
            /\ requests[c][1].method = "POST"
            /\ requests[c][1].url =
                  [origin |-> call[c].sgInstance.instanceUrl.origin,
                   path |-> call[c].sgInstance.instanceUrl.path \o <<".api", "graphql">>]
            /\ DOMAIN requests[c][1].body.json.o = {"query", "variables"}
            /\ Op(c) = "requestGraphQL" =>
                  /\ requests[c][1].body.json.o["query"] = Str(call[c].args.query)
                  /\ call[c].args.variables.t = "object" =>
                        requests[c][1].body.json.o["variables"] = call[c].args.variables

\* the span a settled domain operation started is finished once; before, it is open
SpanOfCall(c) ==
    /\ childSpan[c] \in 2..Len(spans)
    /\ spans[childSpan[c]].name = OperationName(Op(c))
    /\ spans[childSpan[c]].childOf = call[c].span
    /\ Len(requests[c]) = 1
    /\ requests[c][1].span = childSpan[c]
    /\ spans[childSpan[c]].finished = IF Settled(c) THEN 1 ELSE 0

(* C7: every call of a domain operation starts one child span of the caller's *)
(* span, named after the operation, and issues its request inside it; the      *)
(* span is finished exactly once, when the operation settles, whatever the     *)
(* outcome, and once the response has arrived the operation does settle.       *)
C7_SpanClosed ==
    /\ [](\A c \in CallIds :
            /\ (Invoked(c) /\ Op(c) \in DomainOps) => SpanOfCall(c)
            /\ (Invoked(c) /\ Op(c) = "requestGraphQL") => childSpan[c] = 0
            /\ \A d \in CallIds \ {c} :
                  (Invoked(c) /\ Invoked(d) /\ childSpan[c] # 0) => childSpan[c] # childSpan[d])
    /\ [](Len(spans) = 1 + Cardinality({c \in CallIds : Invoked(c) /\ Op(c) \in DomainOps}))
    /\ \A c \in CallIds :
          (pc[c] \in {"json", "resume", "finish"} /\ Op(c) \in DomainOps)
              ~> (/\ Settled(c)
                  /\ childSpan[c] \in 2..Len(spans)
                  /\ spans[childSpan[c]].finished = 1)

\* two domain operations have settled, one by a null access and one by a
\* decode failure, and both their spans are finished
C7_Witness ==
    \E c, d \in CallIds :
        /\ c # d
        /\ Settled(c) /\ Settled(d)
        /\ Op(c) = "resolveRev" /\ Op(d) = "search"
        /\ outcome[c].kind = "rejected" /\ outcome[c].name = "TypeError"
        /\ outcome[d].kind = "rejected" /\ outcome[d].name = "SyntaxError"
        /\ spans[childSpan[c]].finished = 1
        /\ spans[childSpan[d]].finished = 1

\* one request per call, one settlement per call, failures rejected
OneRequestOneSettlement(c) ==
    /\ Len(requests[c]) = IF Invoked(c) THEN 1 ELSE 0
    /\ settles[c] = IF Settled(c) THEN 1 ELSE 0
    /\ jsonCalls[c] <= 1
    /\ outcome[c].kind = "pending" <=> ~Settled(c)
    /\ (Settled(c) /\ (~Responded(c) \/ ~Status2xx(c) \/ ~response[c].body.valid)) =>
            outcome[c].kind = "rejected"
    /\ (Settled(c) /\ outcome[c].kind = "resolved") =>
            /\ Responded(c)
            /\ Status2xx(c)
            /\ jsonCalls[c] = 1

(* C8 as stated: every call of a domain operation or of requestGraphQL makes  *)
(* one request and settles once, and resolves only after its response has     *)
(* passed the status check and the errors check.                               *)
C8_ErrorsCheckedByAll ==
    \A c \in CallIds :
        /\ OneRequestOneSettlement(c)
        /\ (Settled(c) /\ outcome[c].kind = "resolved") => ~HasErrors(c)

(* C8 amended: every call of a domain operation or of requestGraphQL makes    *)
(* one request and settles once; after a failure no further request is made   *)
(* and the outcome, a rejection, stays as it is; a domain operation resolves   *)
(* only after its response has passed the status check and the errors check,   *)
(* requestGraphQL after the status check alone.                                *)
C8_SingleRequest ==
    /\ [](\A c \in CallIds :
            /\ OneRequestOneSettlement(c)
            /\ (Settled(c) /\ outcome[c].kind = "resolved" /\ Op(c) \in DomainOps) =>
                    ~HasErrors(c))
    /\ [][\A c \in CallIds :
            Settled(c) =>
                /\ pc'[c] = "settled"
                /\ outcome'[c] = outcome[c]
                /\ requests'[c] = requests[c]
                /\ settles'[c] = settles[c]]_vars

\* requestGraphQL has resolved with an envelope that lists errors, after one request
C8_Witness ==
    \E c \in CallIds :
        /\ Settled(c)
        /\ Op(c) = "requestGraphQL"
        /\ HasErrors(c)
        /\ outcome[c] = [kind |-> "resolved", value |-> response[c].body.value]
        /\ Len(requests[c]) = 1
        /\ settles[c] = 1

UnguardedOps == {"search", "resolveRev", "queryExtensions"}

DataOf(c) == Field(c, "data")

RequestAlone(in) ==
    FetchRequest(QueryOf(in.args), VariablesOf(in.args), in.sgInstance, 0)

OutcomeAlone(in, resp) ==
    IF resp = NoResponse THEN Rejected("FetchError", <<"request failed">>)
    ELSE IF ~Ok(resp) THEN StatusError(resp)
    ELSE IF in.args.op = "requestGraphQL" \/ ResponseJson(resp).kind = "rejected"
         THEN ResponseJson(resp)
         ELSE CallbackResult(in, ResponseJson(resp).value)

(* C10: with two calls in flight, in every interleaving of their suspension   *)
(* points and every order of their responses, the URL, headers and body of     *)
(* each call's request and its outcome are those the call has when run alone:  *)
(* they depend on its own arguments and its own response only.                 *)
C10_Independent ==
    \A c \in CallIds :
        /\ Invoked(c) =>
              /\ Len(requests[c]) = 1
              /\ requests[c][1].url = RequestAlone(call[c]).url
              /\ requests[c][1].headers = RequestAlone(call[c]).headers
              /\ requests[c][1].body = RequestAlone(call[c]).body
        /\ Settled(c) => outcome[c] = OutcomeAlone(call[c], response[c])
        /\ \A d \in CallIds :
              (Settled(c) /\ Settled(d) /\ call[c] = call[d] /\ response[c] = response[d]) =>
                  outcome[c] = outcome[d]

\* the call started second has resolved while the call started first is still
\* waiting for its body to decode
C10_Witness ==
    \E c, d \in CallIds :
        /\ c # d
        /\ childSpan[c] # 0 /\ childSpan[c] < childSpan[d]
        /\ pc[c] = "json"
        /\ Settled(d)
        /\ outcome[d].kind = "resolved"
        /\ Op(c) # Op(d)
        /\ response[c] # response[d]

====
